---------------------------- MODULE Spec2Model ----------------------------
(***************************************************************************)
(* Model of the PartyHub event pipeline:                                   *)
(*   src/multi_account_event_extractor.py  (MultiAccountEventExtractor)    *)
(*   src/app.py                            (the refresh protocol of index) *)
(*                                                                         *)
(* Texts are sequences of lower-case tokens.  A token is a maximal run of  *)
(* word characters or a single separator; two neighbouring word tokens are *)
(* separated by one blank, a separator token touches both neighbours.      *)
(* A datetime is a record [year, month, day, tod]; tod counts the ticks    *)
(* since midnight, tod = 0 is midnight.                                    *)
(***************************************************************************)
EXTENDS Integers, Sequences, FiniteSets, TLC

VARIABLES
    \* --- extract_date_from_text applied to one text ---
    text,            \* the text handed to extract_date_from_text
    current_date,    \* datetime.now() read at line 129
    date_result,     \* the returned datetime, or None
    rpc,             \* "start" | "done"
    \* --- remove_duplicate_events, one loop iteration per step ---
    events,          \* the input list consumed so far
    unique_events,   \* the accumulated result list
    seen_events,     \* the set of identity keys
    \* --- extract_events_from_multiple_accounts ---
    now,             \* the wall clock
    acct,            \* index of the next username to process
    fetched,         \* per username: what the run saw of it
    all_events,      \* the accumulator of line 442
    deduped,         \* unique_events of line 458
    final_events,    \* the returned list
    filter_now,      \* datetime.now() read by filter_future_events
    ppc,             \* "accounts" | "done"
    \* --- extract_time_from_text and is_future_event applied to one caption ---
    caption_text,    \* the caption
    caption_now,     \* datetime.now() as is_future_event's date search reads it
    time_result,     \* what extract_time_from_text returned
    is_event,        \* what is_future_event returned
    cpc,             \* the calls that have returned, a subset of {"time", "event"}
    \* --- app.py: requests to index() ---
    wall,            \* time.time(), in seconds since the server started
    events_txt,      \* the file EVENTS_TXT: [exists, mtime, dates]
    ok_at,           \* when the last extractor run without error ended, or NoRun
    request,         \* the last request: [at, prior_ok, ran, served]
    apc              \* "serving"

resolveVars  == <<text, current_date, date_result, rpc>>
dedupeVars   == <<events, unique_events, seen_events>>
pipelineVars == <<now, acct, fetched, all_events, deduped, final_events, filter_now, ppc>>
captionVars  == <<caption_text, caption_now, time_result, is_event, cpc>>
appVars      == <<wall, events_txt, ok_at, request, apc>>
vars == <<resolveVars, dedupeVars, pipelineVars, captionVars, appVars>>

\* Optional[datetime]: None is the record no datetime can be (MINYEAR is 1)
None == [year |-> 0, month |-> 0, day |-> 0, tod |-> 0]

-----------------------------------------------------------------------------
(* Bounds of the model *)

TicksPerDay == 2

\* the largest hour and minute numerals in the texts
MaxHourToken == 13
MaxMinuteToken == 60

\* the server's clock advances by WallStep seconds up to MaxWall
WallStep == 600
MaxWall == 4200

-----------------------------------------------------------------------------
(* datetime: the parts of Python's datetime the program uses *)

IsLeap(y) == (y % 4 = 0 /\ y % 100 # 0) \/ y % 400 = 0

DaysInMonth(y, m) ==
    IF m = 2 THEN (IF IsLeap(y) THEN 29 ELSE 28)
    ELSE IF m \in {4, 6, 9, 11} THEN 30 ELSE 31

\* datetime(year, month, day) raises ValueError unless this holds
ValidDate(y, m, d) ==
    /\ y \in 1..9999
    /\ m \in 1..12
    /\ d >= 1
    /\ d <= DaysInMonth(y, m)

datetime(y, m, d) == [year |-> y, month |-> m, day |-> d, tod |-> 0]

RECURSIVE DaysBeforeMonth(_, _)
DaysBeforeMonth(y, m) ==
    IF m = 1 THEN 0 ELSE DaysBeforeMonth(y, m - 1) + DaysInMonth(y, m - 1)

\* datetime.toordinal(): 0001-01-01 is day 1
DaysBeforeYear(y) == 365 * (y - 1) + ((y - 1) \div 4) - ((y - 1) \div 100) + ((y - 1) \div 400)

Ordinal(dt) == DaysBeforeYear(dt.year) + DaysBeforeMonth(dt.year, dt.month) + dt.day

\* datetime.weekday(): Monday is 0, Sunday is 6
weekday(dt) == (Ordinal(dt) + 6) % 7

\* a < b on datetimes
Before(a, b) ==
    \/ a.year < b.year
    \/ a.year = b.year /\ a.month < b.month
    \/ a.year = b.year /\ a.month = b.month /\ a.day < b.day
    \/ a.year = b.year /\ a.month = b.month /\ a.day = b.day /\ a.tod < b.tod

NextDay(dt) ==
    IF dt.day < DaysInMonth(dt.year, dt.month)
    THEN [dt EXCEPT !.day = dt.day + 1]
    ELSE IF dt.month < 12
         THEN [dt EXCEPT !.month = dt.month + 1, !.day = 1]
         ELSE [dt EXCEPT !.year = dt.year + 1, !.month = 1, !.day = 1]

\* dt + timedelta(days=n), n >= 0
RECURSIVE timedelta(_, _)
timedelta(dt, n) == IF n = 0 THEN dt ELSE timedelta(NextDay(dt), n - 1)

Min(a, b) == IF a <= b THEN a ELSE b

\* the first of the positions S of a list, 0 when there is none (a loop that
\* breaks at its first hit, a search that returns its first match)
FirstOf(S) == IF S = {} THEN 0 ELSE CHOOSE j \in S : \A k \in S : j <= k

\* dt + relativedelta(months=1): the day is clipped to the target month
ClipDay(dt, y, m) ==
    [dt EXCEPT !.year = y, !.month = m, !.day = Min(dt.day, DaysInMonth(y, m))]

relativedelta_months(dt) ==
    IF dt.month = 12 THEN ClipDay(dt, dt.year + 1, 1) ELSE ClipDay(dt, dt.year, dt.month + 1)

\* dt + relativedelta(years=1)
relativedelta_years(dt) == ClipDay(dt, dt.year + 1, dt.month)

\* (a - b).days: the difference in whole days, rounded down
FloorDays(ticks) ==
    IF ticks >= 0 THEN ticks \div TicksPerDay
    ELSE 0 - ((0 - ticks + TicksPerDay - 1) \div TicksPerDay)

DeltaDays(a, b) == FloorDays((Ordinal(a) - Ordinal(b)) * TicksPerDay + (a.tod - b.tod))

\* dt.strftime('%Y-%m-%d'): the calendar day, the time of day is lost.
\* The zero-padded string is modelled by the triple it orders like.
strftime(dt) == <<dt.year, dt.month, dt.day>>

\* datetime.strptime(s, '%Y-%m-%d'): midnight of that day
strptime(s) == datetime(s[1], s[2], s[3])

\* s1 <= s2 on 'YYYY-MM-DD' strings
DateStrLeq(s1, s2) ==
    \/ s1[1] < s2[1]
    \/ s1[1] = s2[1] /\ s1[2] < s2[2]
    \/ s1[1] = s2[1] /\ s1[2] = s2[2] /\ s1[3] <= s2[3]

-----------------------------------------------------------------------------
(* Tokens *)

month_names == <<"january", "february", "march", "april", "may", "june", "july",
                 "august", "september", "october", "november", "december">>

\* day_map of line 226, in insertion order; day_num is the index minus one
day_map == <<"monday", "tuesday", "wednesday", "thursday", "friday", "saturday", "sunday">>

SeqToSet(s) == {s[i] : i \in DOMAIN s}

\* the number tokens of the model and int() of each
NumTable == {<<"2", 2>>, <<"3", 3>>, <<"5", 5>>, <<"6", 6>>, <<"7", 7>>, <<"12", 12>>, <<"13", 13>>, <<"15", 15>>,
             <<"29", 29>>, <<"31", 31>>, <<"2025", 2025>>, <<"2026", 2026>>}

IsNum(t) == \E p \in NumTable : p[1] = t
int(t) == (CHOOSE p \in NumTable : p[1] = t)[2]

\* \d{1,2} and \d{4} between word boundaries
IsNum12(t) == IsNum(t) /\ int(t) < 100
IsNum4(t) == IsNum(t) /\ int(t) >= 1000 /\ int(t) <= 9999
\* 20\d{2}
IsNum20xx(t) == IsNum(t) /\ int(t) >= 2000 /\ int(t) <= 2099

\* [/-]
IsSep(t) == t \in {"/", "-"}

\* the substrings of a token that the program searches for with `in`:
\* the token itself, and the month name inside "maybe"
Within(t) == IF t = "maybe" THEN {"maybe", "may"} ELSE {t}

\* `word in text_lower` for a one-word needle
Contains(t, word) == \E i \in DOMAIN t : word \in Within(t[i])

\* `'next <w>' in text_lower`: "next" followed by one blank and a token that
\* starts with w ("next weekend" contains 'next week')
StartsWith(tok, w) == tok = w \/ (w = "week" /\ tok = "weekend")
ContainsNext(t, w) ==
    \E i \in DOMAIN t : i < Len(t) /\ t[i] = "next" /\ StartsWith(t[i + 1], w)

TokAt(t, i) == IF i \in DOMAIN t THEN t[i] ELSE ""

-----------------------------------------------------------------------------
(* date_patterns, lines 40-62: the regular expressions on token sequences *)

date_patterns == <<"dmy", "dm", "month_d_y", "d_month_y", "month_d", "d_month",
                   "relative", "weekend", "weekday", "time_hm", "time_h">>

IsMonthTok(tok) == tok \in SeqToSet(month_names)

relative_words == {"week", "month", "year"} \cup SeqToSet(day_map)

\* the decimal numeral of n with at least two digits
TwoDigits(n) == IF n < 10 THEN "0" \o ToString(n) ELSE ToString(n)

\* (\d{1,2}) and (\d{2}): the hour and minute numerals of the model's tokens
HourNumerals == 0..MaxHourToken
MinuteNumerals == {TwoDigits(m) : m \in 0..MaxMinuteToken}

\* the clock-time tokens of the model ("9pm" and "7:30am" are runs without a
\* blank, \s* matching nothing): token, hour, minute, period
TimeTable ==
    {<<ToString(h) \o p, h, "", p>> : h \in HourNumerals, p \in {"am", "pm"}}
      \cup {<<ToString(h) \o ":" \o m \o p, h, m, p>> :
               h \in HourNumerals, m \in MinuteNumerals, p \in {"am", "pm"}}

\* (\d{1,2})\s*(am|pm) and (\d{1,2}):(\d{2})\s*(am|pm)
time_h_tokens == {e[1] : e \in {x \in TimeTable : x[3] = ""}}
time_hm_tokens == {e[1] : e \in {x \in TimeTable : x[3] # ""}}

\* pattern p matches at token i
MatchAt(p, t, i) ==
    CASE p = "dmy" ->
           /\ IsNum12(TokAt(t, i)) /\ IsSep(TokAt(t, i + 1)) /\ IsNum12(TokAt(t, i + 2))
           /\ IsSep(TokAt(t, i + 3)) /\ IsNum4(TokAt(t, i + 4))
      [] p = "dm" ->
           IsNum12(TokAt(t, i)) /\ IsSep(TokAt(t, i + 1)) /\ IsNum12(TokAt(t, i + 2))
      [] p = "month_d_y" ->
           /\ IsMonthTok(TokAt(t, i)) /\ IsNum12(TokAt(t, i + 1))
           /\ \/ IsNum4(TokAt(t, i + 2))
              \/ TokAt(t, i + 2) = "," /\ IsNum4(TokAt(t, i + 3))
      [] p = "d_month_y" ->
           IsNum12(TokAt(t, i)) /\ IsMonthTok(TokAt(t, i + 1)) /\ IsNum4(TokAt(t, i + 2))
      [] p = "month_d" ->
           IsMonthTok(TokAt(t, i)) /\ IsNum12(TokAt(t, i + 1))
      [] p = "d_month" ->
           IsNum12(TokAt(t, i)) /\ IsMonthTok(TokAt(t, i + 1))
      [] p = "relative" ->
           \/ TokAt(t, i) \in {"today", "tomorrow"}
           \/ TokAt(t, i) = "next" /\ TokAt(t, i + 1) \in relative_words
      [] p = "weekend" ->
           TokAt(t, i) \in {"this", "next"} /\ TokAt(t, i + 1) = "weekend"
      [] p = "weekday" ->
           TokAt(t, i) \in SeqToSet(day_map)
      [] p = "time_hm" -> TokAt(t, i) \in time_hm_tokens
      [] p = "time_h" -> TokAt(t, i) \in time_h_tokens
      [] OTHER -> FALSE

\* re.findall(pattern, text_lower) is not empty
Matches(p, t) == \E i \in DOMAIN t : MatchAt(p, t, i)

\* the position of matches[0]
FirstMatch(p, t) ==
    CHOOSE i \in DOMAIN t : MatchAt(p, t, i) /\ \A j \in 1..(i - 1) : ~MatchAt(p, t, j)

\* `'month' in pattern`, line 151: of the eleven pattern strings only the
\* relative one contains the letters "month" (in next\s+(?:week|month|year|...);
\* the four named-month patterns list the month names and do not contain it
HasMonthInPattern(p) == p = "relative"

-----------------------------------------------------------------------------
(* extract_date_from_text, lines 118-240 *)

\* datetime(year, month, day), None for its ValueError
MakeDate(year, month, day) ==
    IF ValidDate(year, month, day) THEN datetime(year, month, day) ELSE None

\* lines 145-149 and 174-177: the date in `year`, moved to the next year when
\* it is before the clock and `roll` allows it; None for a ValueError
InferYear(year, month, day, cd, roll) ==
    IF ~ValidDate(year, month, day) THEN None
    ELSE IF Before(datetime(year, month, day), cd) /\ roll
         THEN MakeDate(year + 1, month, day)
         ELSE datetime(year, month, day)

\* lines 138-139, for the match that starts at token i
DMYAt(t, i) == MakeDate(int(t[i + 4]), int(t[i + 2]), int(t[i]))

\* lines 136-139: DD/MM/YYYY
BranchDMY(t, cd) == DMYAt(t, FirstMatch("dmy", t))

\* lines 143-149 without the step of lines 147-148
DMAtThisYear(t, i, cd) == InferYear(cd.year, int(t[i + 2]), int(t[i]), cd, FALSE)

\* lines 143-149, for the match that starts at token i
DMAt(t, i, cd) == InferYear(cd.year, int(t[i + 2]), int(t[i]), cd, TRUE)

\* lines 141-149: DD/MM of the current year, or of the next when it has passed
BranchDM(t, cd) == DMAt(t, FirstMatch("dm", t), cd)

\* lines 153-165: the first month name, in calendar order, that the text
\* contains; 0 when it contains none (the `else: continue`)
MonthOf(t) ==
    IF \E m \in 1..12 : Contains(t, month_names[m])
    THEN CHOOSE m \in 1..12 :
            /\ Contains(t, month_names[m])
            /\ \A k \in 1..(m - 1) : ~Contains(t, month_names[k])
    ELSE 0

\* re.search(r'\b(\d{1,2})\b', text), line 168: the position of the first
\* such number, 0 when there is none
FirstNum12(t) == FirstOf({i \in DOMAIN t : IsNum12(t[i])})

\* re.search(r'\b(20\d{2})\b', text), line 169
FirstNum20xx(t) == FirstOf({i \in DOMAIN t : IsNum20xx(t[i])})

\* lines 171-177, with the positions of day_match and year_match (0 for None)
MonthDate(t, cd, month, day_match, year_match) ==
    IF month = 0 \/ day_match = 0 THEN None
    ELSE IF year_match # 0
         THEN InferYear(int(t[year_match]), month, int(t[day_match]), cd, FALSE)
         ELSE InferYear(cd.year, month, int(t[day_match]), cd, TRUE)

\* lines 151-177: the branch taken by every pattern whose text contains "month"
BranchMonth(t, cd) ==
    MonthDate(t, cd, MonthOf(t), FirstNum12(t), FirstNum20xx(t))

\* lines 189-209: 'next monday' adds 7 - weekday, the other six days add
\* (7 + day_num - weekday) % 7; k is the index of the day in day_map
NextWeekdayAhead(k, cd) ==
    IF k = 1 THEN 7 - weekday(cd) ELSE (7 + (k - 1) - weekday(cd)) % 7

\* the first day of day_map that follows a "next" in the text
FirstNextDay(t) ==
    CHOOSE k \in 1..7 :
        /\ ContainsNext(t, day_map[k])
        /\ \A j \in 1..(k - 1) : ~ContainsNext(t, day_map[j])

\* lines 179-209: the relative keywords
BranchRelative(t, cd) ==
    IF Contains(t, "tomorrow") THEN timedelta(cd, 1)
    ELSE IF ContainsNext(t, "week") THEN timedelta(cd, 7)
    ELSE IF ContainsNext(t, "month") THEN relativedelta_months(cd)
    ELSE IF ContainsNext(t, "year") THEN relativedelta_years(cd)
    ELSE IF \E k \in 1..7 : ContainsNext(t, day_map[k])
         THEN timedelta(cd, NextWeekdayAhead(FirstNextDay(t), cd))
         ELSE None

\* lines 214-222 for days_until_saturday = (5 - weekday) % 7
WeekendDate(t, cd, days_until_saturday) ==
    IF ContainsNext(t, "weekend")
    THEN timedelta(cd, IF days_until_saturday = 0 THEN 7 ELSE days_until_saturday)
    ELSE IF \E i \in DOMAIN t : t[i] = "this" /\ TokAt(t, i + 1) = "weekend"
         THEN timedelta(cd, days_until_saturday)
         ELSE None

\* lines 211-222: this weekend / next weekend
BranchWeekend(t, cd) == WeekendDate(t, cd, (5 - weekday(cd)) % 7)

\* the day count of the weekday branch without the step of lines 233-234
TodayIfToday(days_ahead) == days_ahead

\* lines 233-234: a full week when the named day is today
WholeWeekIfToday(days_ahead) == IF days_ahead = 0 THEN 7 ELSE days_ahead

\* line 232 with the operands of the subtraction exchanged
WeekdayBehind(day_num, cd) == WholeWeekIfToday((weekday(cd) - day_num) % 7)

\* lines 232-234: the offset from the clock to the day day_num
WeekdayAhead(day_num, cd) == WholeWeekIfToday((day_num - weekday(cd)) % 7)

\* the first day of day_map that the text contains
FirstDay(t) ==
    CHOOSE k \in 1..7 :
        /\ Contains(t, day_map[k])
        /\ \A j \in 1..(k - 1) : ~Contains(t, day_map[j])

\* lines 224-235: the bare weekday
BranchWeekday(t, cd) ==
    IF \E k \in 1..7 : Contains(t, day_map[k])
    THEN timedelta(cd, WeekdayAhead(FirstDay(t) - 1, cd))
    ELSE None

\* the if/elif chain of lines 136-235 for a pattern that matched; None when
\* the chain returns nothing and the loop goes on to the next pattern
Branch(p, t, cd) ==
    IF p = "dmy" THEN BranchDMY(t, cd)
    ELSE IF p = "dm" THEN BranchDM(t, cd)
    ELSE IF HasMonthInPattern(p) THEN BranchMonth(t, cd)
    ELSE IF p = "relative" THEN BranchRelative(t, cd)
    ELSE IF p = "weekend" THEN BranchWeekend(t, cd)
    ELSE IF p = "weekday" THEN BranchWeekday(t, cd)
    ELSE None

\* the loop of line 132 from pattern i on; r is what pattern i returned
RECURSIVE TryPatterns(_, _, _)
ReturnOrGoOn(r, i, t, cd) == IF r # None THEN r ELSE TryPatterns(i + 1, t, cd)

TryPattern(p, t, cd) == IF Matches(p, t) THEN Branch(p, t, cd) ELSE None

TryPatterns(i, t, cd) ==
    IF i > Len(date_patterns) THEN None
    ELSE ReturnOrGoOn(TryPattern(date_patterns[i], t, cd), i, t, cd)

extract_date_from_text(t, cd) == TryPatterns(1, t, cd)

-----------------------------------------------------------------------------
(* The texts and clock readings extract_date_from_text is applied to *)

Prefixed(ts) == ts \cup {<<"party">> \o t : t \in ts}

KeywordTexts == {<<"tomorrow">>, <<"next", "week">>, <<"next", "month">>, <<"next", "year">>}

TextMonths == {2, 6, 12}
TextDays == {"5", "29", "31"}
TextYears == {"2025", "2026"}

MonthDay(m, d) == <<month_names[m], d>>
DayMonth(m, d) == <<d, month_names[m]>>
MonthDayYear(m, d, y) == <<month_names[m], d, ",", y>>
DayMonthYear(m, d, y) == <<d, month_names[m], y>>

NamedMonthTexts ==
    {MonthDay(m, d) : m \in TextMonths, d \in TextDays}
      \cup {DayMonth(m, d) : m \in TextMonths, d \in TextDays}
      \cup {MonthDayYear(m, d, y) : m \in TextMonths, d \in TextDays, y \in TextYears}
      \cup {DayMonthYear(m, d, y) : m \in TextMonths, d \in TextDays, y \in TextYears}

NextWeekdayTexts == {<<"next", day_map[k]>> : k \in 1..7}
WeekendTexts == {<<"this", "weekend">>, <<"next", "weekend">>}
WeekdayTexts == {<<day_map[k]>> : k \in 1..7}

NumericTexts ==
    {<<d, "/", m>> : d \in TextDays, m \in {"2", "6", "12", "13"}}
      \cup {<<d, "-", m, "-", y>> : d \in TextDays, m \in {"3", "6"}, y \in TextYears}

OtherTexts == {<<"today">>, <<"tomorrow", "maybe", "5">>, <<"party">>, <<"9pm">>}

\* texts in which several patterns match
MixedTexts == {<<"tomorrow", "friday">>, <<"june", "5", "friday">>, <<"5", "/", "6", "friday">>,
               <<"5", "-", "6", "-", "2025", "tomorrow">>, <<"this", "weekend", "friday">>,
               <<"31", "/", "6", "/", "2025", "friday">>}

DateTexts ==
    Prefixed(KeywordTexts) \cup NamedMonthTexts \cup Prefixed(NextWeekdayTexts)
      \cup Prefixed(WeekendTexts) \cup Prefixed(WeekdayTexts) \cup NumericTexts \cup OtherTexts
      \cup MixedTexts

ClockYears == {2024, 2025}

\* every reading of the clock in the years of the model
Nows ==
    {dt \in [year : ClockYears, month : 1..12, day : 1..31, tod : 0..(TicksPerDay - 1)] :
        ValidDate(dt.year, dt.month, dt.day)}

-----------------------------------------------------------------------------
(* Specification SpecResolve: extract_date_from_text on one text *)

DedupeIdle == events = <<>> /\ unique_events = <<>> /\ seen_events = {}

PipelineIdle ==
    /\ now = None /\ filter_now = None /\ acct = 0 /\ ppc = "idle"
    /\ fetched = <<>> /\ all_events = <<>> /\ deduped = <<>> /\ final_events = <<>>

ResolveIdle == text = <<>> /\ current_date = None /\ date_result = None /\ rpc = "idle"

CaptionIdle ==
    /\ caption_text = <<>> /\ caption_now = None /\ time_result = <<>> /\ is_event = FALSE
    /\ cpc = {"idle"}

\* no request has been made and no extractor run has ended
NoRun == 0 - 1
NoRequest == [at |-> NoRun, prior_ok |-> NoRun, ran |-> FALSE, served |-> <<>>]
NoFile == [exists |-> FALSE, mtime |-> 0, dates |-> <<>>]

AppIdle ==
    wall = 0 /\ events_txt = NoFile /\ ok_at = NoRun /\ request = NoRequest /\ apc = "idle"

InitResolve ==
    /\ text \in DateTexts
    /\ current_date \in Nows
    /\ date_result = None
    /\ rpc = "start"
    /\ DedupeIdle
    /\ PipelineIdle
    /\ CaptionIdle
    /\ AppIdle

\* one call of extract_date_from_text(text)
ResolveDate ==
    /\ rpc = "start"
    /\ date_result' = extract_date_from_text(text, current_date)
    /\ rpc' = "done"
    /\ UNCHANGED <<text, current_date, dedupeVars, pipelineVars, captionVars, appVars>>

NextResolve == ResolveDate

SpecResolve == InitResolve /\ [][NextResolve]_vars

-----------------------------------------------------------------------------
(* Properties of extract_date_from_text, checked under SpecResolve *)

\* the index in day_map of the weekday a text names
NamedDay(t) == CHOOSE k \in DOMAIN day_map : \E i \in DOMAIN t : t[i] = day_map[k]

\* the month, the day and the explicit year (0 when there is none) of a text
\* of NamedMonthTexts
NamedMonth(t) == CHOOSE m \in DOMAIN month_names : \E i \in DOMAIN t : t[i] = month_names[m]
NamedDayOfMonth(t) == int(CHOOSE d \in TextDays : \E i \in DOMAIN t : t[i] = d)
NamedYear(t) ==
    IF \E i \in DOMAIN t : t[i] \in TextYears
    THEN int(CHOOSE y \in TextYears : \E i \in DOMAIN t : t[i] = y)
    ELSE 0

\* the year the reference year is rolled to when the date is already past
RolledYear(m, d, cd) ==
    IF Before(datetime(cd.year, m, d), cd) THEN cd.year + 1 ELSE cd.year

\* C7: for a text whose only date expression is "tomorrow", "next week",
\* "next month" or "next year", extract_date_from_text returns the clock
\* reading plus 1 day, 7 days, 1 calendar month or 1 calendar year; never None.
C7_RelativeKeywords ==
    (rpc = "done" /\ text \in Prefixed(KeywordTexts)) =>
        /\ date_result # None
        /\ Contains(text, "tomorrow") => date_result = timedelta(current_date, 1)
        /\ Contains(text, "week") => date_result = timedelta(current_date, 7)
        /\ Contains(text, "month") => date_result = relativedelta_months(current_date)
        /\ Contains(text, "year") => date_result = relativedelta_years(current_date)

\* C8: for a text whose only date expression is "Month D", "D Month",
\* "Month D, Y" or "D Month Y" naming a day the month has, the result is not
\* None and is the date with that month and day, in the explicit year when the
\* text has one, otherwise in the clock's year, rolled forward by one when
\* that date is already past.
C8_NamedMonth ==
    (rpc = "done" /\ text \in NamedMonthTexts) =>
        LET m == NamedMonth(text)
            d == NamedDayOfMonth(text)
            y == IF NamedYear(text) # 0 THEN NamedYear(text) ELSE RolledYear(m, d, current_date)
        IN  ValidDate(y, m, d) /\ ValidDate(current_date.year, m, d)
                => date_result = datetime(y, m, d)

\* C9: for a text "next <weekday>", whatever the weekday of the clock reading,
\* the result falls on the named weekday, between 1 and 7 days after the day of
\* the clock reading, and exactly 7 days after it when that day is the named
\* weekday.
C9_NextWeekday ==
    (rpc = "done" /\ text \in Prefixed(NextWeekdayTexts)) =>
        /\ date_result # None
        /\ weekday(date_result) = NamedDay(text) - 1
        /\ Ordinal(date_result) - Ordinal(current_date) \in 1..7
        /\ weekday(current_date) = NamedDay(text) - 1
              => Ordinal(date_result) - Ordinal(current_date) = 7

\* C9 witness: "next friday" read on a Friday gave the Friday a week later
C9_SameWeekday ==
    /\ rpc = "done"
    /\ text = <<"next", "friday">>
    /\ weekday(current_date) = 4
    /\ date_result = timedelta(current_date, 7)

\* C10: whatever the weekday of the clock reading, "this weekend" resolves to
\* the nearest Saturday on or after the day of the clock reading (that day when
\* it is a Saturday) and "next weekend" to the Saturday seven days after the
\* one "this weekend" resolves to.
C10_Weekend ==
    (rpc = "done" /\ text \in Prefixed(WeekendTexts)) =>
        LET this_weekend == timedelta(current_date, (5 - weekday(current_date)) % 7)
        IN  IF Contains(text, "this")
            THEN date_result = this_weekend
            ELSE date_result = timedelta(this_weekend, 7)

\* the first pattern of date_patterns that matches the text
FirstPattern(t) == date_patterns[FirstOf({i \in DOMAIN date_patterns : Matches(date_patterns[i], t)})]

\* what the category of pattern p gives on its own
CategoryResult(p, t, cd) ==
    IF p = "dmy" THEN BranchDMY(t, cd)
    ELSE IF p = "dm" THEN BranchDM(t, cd)
    ELSE IF p \in {"month_d_y", "d_month_y", "month_d", "d_month"} THEN BranchMonth(t, cd)
    ELSE IF p = "relative" THEN BranchRelative(t, cd)
    ELSE IF p = "weekend" THEN BranchWeekend(t, cd)
    ELSE BranchWeekday(t, cd)

\* C11: the categories are applied in the order D/M/Y, D/M, named month,
\* relative keyword, weekend phrase, bare weekday: for a text in which several
\* of them match, the result is what the first matching category gives on its
\* own ("tomorrow friday" gives the clock plus a day, "june 5 friday" the 5th
\* of June) and no later category has a part in it.
C11_PriorityOrder ==
    (rpc = "done" /\ text \in MixedTexts) =>
        date_result = CategoryResult(FirstPattern(text), text, current_date)

\* the day and the month of a text "D/M" or "D-M"
DayOfDM(t) == int(t[1])
MonthOfDM(t) == int(t[3])
DMTexts == {t \in NumericTexts : Len(t) = 3}

\* C12 as stated: for a day/month pair that is a date of the clock's year, the
\* year is the clock's year unless that date is before the clock reading, in
\* which case it is the clock's year plus one; the date returned is never
\* before the clock reading.
C12_RollForward ==
    (/\ rpc = "done" /\ text \in DMTexts
     /\ ValidDate(current_date.year, MonthOfDM(text), DayOfDM(text))) =>
        /\ date_result = datetime(RolledYear(MonthOfDM(text), DayOfDM(text), current_date),
                                  MonthOfDM(text), DayOfDM(text))
        /\ ~Before(date_result, current_date)

\* C12 amended: as C12, except that when the date is before the clock reading
\* and the clock's year plus one does not have it (29 February), the pattern
\* gives no date; a date that is returned is never before the clock reading.
C12_RollForwardIfDate ==
    (/\ rpc = "done" /\ text \in DMTexts
     /\ ValidDate(current_date.year, MonthOfDM(text), DayOfDM(text))) =>
        IF ValidDate(RolledYear(MonthOfDM(text), DayOfDM(text), current_date),
                     MonthOfDM(text), DayOfDM(text))
        THEN /\ date_result = datetime(RolledYear(MonthOfDM(text), DayOfDM(text), current_date),
                                       MonthOfDM(text), DayOfDM(text))
             /\ ~Before(date_result, current_date)
        ELSE date_result = None

\* C12 witness: "5/6" read after the 5th of June gave the 5th of June of the
\* next year
C12_Rolled ==
    /\ rpc = "done"
    /\ text = <<"5", "/", "6">>
    /\ Before(datetime(current_date.year, 6, 5), current_date)
    /\ date_result = datetime(current_date.year + 1, 6, 5)

\* C16: for a text whose only date expression is one weekday name without
\* "next", whatever the weekday of the clock, the result falls on the named
\* weekday, at least 1 and at most 7 days after the day of the clock reading.
C16_BareWeekday ==
    (rpc = "done" /\ text \in Prefixed(WeekdayTexts)) =>
        /\ date_result # None
        /\ weekday(date_result) = NamedDay(text) - 1
        /\ Ordinal(date_result) - Ordinal(current_date) \in 1..7
        /\ date_result.tod = current_date.tod

\* C16 witness: "friday" read on a Thursday gave the next day, and read on a
\* Friday would not give that Friday
C16_NextDay ==
    /\ rpc = "done"
    /\ text = <<"friday">>
    /\ weekday(current_date) = 3
    /\ date_result = timedelta(current_date, 1)

-----------------------------------------------------------------------------
(* Event dicts and remove_duplicate_events, lines 473-531 *)

(* An event dict is a record; `keys` holds those of the optional keys
   'source_account' and 'source_accounts' that the dict has.  Names, captions
   and locations are sequences of atoms: words, and " " for a blank at either
   end. *)

TBD == <<"TBD">>

\* str.lower() on one atom
LowerTable == {<<"Trivia", "trivia">>, <<"Night", "night">>, <<"Karaoke", "karaoke">>,
               <<"Every", "every">>, <<"Wednesday", "wednesday">>, <<"The", "the">>,
               <<"Lounge", "lounge">>, <<"TBD", "tbd">>, <<"Party", "party">>,
               <<"Show", "show">>, <<"Launch", "launch">>, <<"Event", "event">>}

lower_atom(a) ==
    IF \E p \in LowerTable : p[1] = a
    THEN (CHOOSE p \in LowerTable : p[1] = a)[2]
    ELSE a

lower(s) == [i \in DOMAIN s |-> lower_atom(s[i])]

\* str.strip()
RECURSIVE strip(_)
strip(s) ==
    IF s = <<>> THEN s
    ELSE IF Head(s) = " " THEN strip(Tail(s))
    ELSE IF s[Len(s)] = " " THEN strip(SubSeq(s, 1, Len(s) - 1))
    ELSE s

\* lines 485-487
is_karaoke_wednesday(event) ==
    LET t == lower(event.event_name \o <<" ">> \o event.caption)
    IN  (\E i \in DOMAIN t : t[i] = "karaoke") /\ (\E i \in DOMAIN t : t[i] = "wednesday")

\* lines 509-513
event_key(event) ==
    <<strip(lower(event.event_name)),
      event.date,
      IF event.location # TBD THEN strip(lower(event.location)) ELSE TBD>>

\* the accounts an event is attributed to (as print_events_summary reads them)
SourceList(event) ==
    IF "source_accounts" \in event.keys THEN event.source_accounts
    ELSE <<event.source_account>>

\* lines 498-499 and 502-503: the account is appended
AppendSource(existing, account) ==
    [existing EXCEPT !.source_accounts = Append(@, account)]

\* lines 501-503, e1 being existing after line 501
MergeIntoNewList(e1, event) ==
    IF "source_account" \in event.keys /\ event.source_account # e1.source_accounts[1]
    THEN AppendSource(e1, event.source_account)
    ELSE e1

\* lines 496-503: fold the source of event into the karaoke record existing
merge_karaoke(existing, event) ==
    IF "source_accounts" \in existing.keys
    THEN IF /\ "source_account" \in event.keys
            /\ event.source_account \notin SeqToSet(existing.source_accounts)
         THEN AppendSource(existing, event.source_account)
         ELSE existing
    ELSE MergeIntoNewList([existing EXCEPT !.source_accounts = <<existing.source_account>>,
                                           !.keys = @ \cup {"source_accounts"}],
                          event)

Deleted == "<deleted>"

\* lines 526-528: the list is created and the single account deleted
WithSourceList(existing) ==
    IF "source_accounts" \notin existing.keys
    THEN [existing EXCEPT !.source_accounts = <<existing.source_account>>,
                          !.source_account = Deleted,
                          !.keys = (@ \cup {"source_accounts"}) \ {"source_account"}]
    ELSE existing

\* merge_duplicate with the later record taking the place of the first-seen one
merge_duplicate_last_seen(existing, event) ==
    [event EXCEPT !.source_accounts = Append(SourceList(existing), event.source_account),
                  !.source_account = Deleted,
                  !.keys = {"source_accounts"}]

\* lines 526-529: fold the source of event into the record with the same key
merge_duplicate(existing, event) ==
    AppendSource(WithSourceList(existing), event.source_account)

\* lines 493-494: the first accumulated karaoke record, 0 when there is none
FirstKaraoke(unique) == FirstOf({j \in DOMAIN unique : is_karaoke_wednesday(unique[j])})

\* lines 519-525: the first accumulated record with the key of event
FirstWithKey(unique, event) ==
    FirstOf({j \in DOMAIN unique : event_key(unique[j]) = event_key(event)})

\* which way one iteration of the loop of line 489 goes
DedupeBranch(unique, seen, event) ==
    IF is_karaoke_wednesday(event) /\ FirstKaraoke(unique) # 0
    THEN "karaoke"
    ELSE IF event_key(event) \notin seen THEN "insert" ELSE "duplicate"

\* lines 493-505: the first karaoke record, at index j, takes the source
KaraokeIter(st, event, j) == [st EXCEPT !.unique[j] = merge_karaoke(@, event)]

\* lines 514-516
InsertIter(st, event) ==
    [unique |-> Append(st.unique, event), seen |-> st.seen \cup {event_key(event)}]

\* lines 519-530: the first record with the key, at index j, takes the source
DuplicateIter(st, event, j) ==
    IF j = 0 THEN st ELSE [st EXCEPT !.unique[j] = merge_duplicate(@, event)]

\* one iteration of the loop of line 489, which goes the way `branch`
BranchIter(st, event, branch) ==
    IF branch = "karaoke" THEN KaraokeIter(st, event, FirstKaraoke(st.unique))
    ELSE IF branch = "insert" THEN InsertIter(st, event)
    ELSE DuplicateIter(st, event, FirstWithKey(st.unique, event))

DedupeIter(st, event) == BranchIter(st, event, DedupeBranch(st.unique, st.seen, event))

RECURSIVE DedupeFrom(_, _)
DedupeFrom(st, evs) ==
    IF evs = <<>> THEN st ELSE DedupeFrom(DedupeIter(st, Head(evs)), Tail(evs))

remove_duplicate_events(evs) == DedupeFrom([unique |-> <<>>, seen |-> {}], evs).unique

-----------------------------------------------------------------------------
(* extract_time_from_text, lines 242-280, and is_future_event, lines 282-305 *)

NoTime == "None"

\* f"{hour:02d}:{minute}"; the returned string is kept in a list of one
FormatTime(hour, minute) == <<TwoDigits(hour) \o ":" \o minute>>

\* lines 272-278 without the test of noon at line 273
AddTwelve(hour, minute, period) ==
    IF period = "pm" THEN FormatTime(hour + 12, minute)
    ELSE IF period = "am" /\ hour = 12 THEN FormatTime(0, minute)
    ELSE FormatTime(hour, minute)

\* lines 272-278
ConvertTime(hour, minute, period) ==
    IF period = "pm" /\ hour # 12 THEN FormatTime(hour + 12, minute)
    ELSE IF period = "am" /\ hour = 12 THEN FormatTime(0, minute)
    ELSE FormatTime(hour, minute)

\* lines 261-278 for the match that is the token tok; minute is '' when the
\* pattern has no minute group
TimeOfEntry(e) == ConvertTime(e[2], IF e[3] = "" THEN "00" ELSE e[3], e[4])

TimeOfToken(tok) == TimeOfEntry(CHOOSE e \in TimeTable : e[1] = tok)

extract_time_from_text(t) ==
    IF Matches("time_hm", t) THEN TimeOfToken(t[FirstMatch("time_hm", t)])
    ELSE IF Matches("time_h", t) THEN TimeOfToken(t[FirstMatch("time_h", t)])
    ELSE <<NoTime>>

\* line 29
event_keywords ==
    {"event", "party", "concert", "show", "festival", "gathering", "meetup",
     "launch", "opening", "premiere", "exhibition", "workshop", "seminar",
     "conference", "meet", "celebration", "ceremony", "reception", "dinner",
     "lunch", "brunch", "drunch", "ball", "masquerade", "karaoke", "live",
     "performance", "gig", "tour", "tournament", "competition", "race",
     "marathon", "walk", "run", "challenge", "contest", "auction", "sale",
     "fair", "market", "bazaar", "expo", "convention", "summit", "forum"}

\* line 302; 'at ' and 'in ' need a blank after the word
location_words == {"venue", "location", "place", "club", "restaurant", "cafe", "bar"}

\* line 303
action_words == {<<"join">>, <<"come">>, <<"attend">>, <<"be", "there">>, <<"don't", "miss">>,
                 <<"save", "the", "date">>, <<"rsvp">>}

\* a phrase of whole words is in the text
ContainsPhrase(t, ph) ==
    \E i \in DOMAIN t :
        /\ i + Len(ph) - 1 <= Len(t)
        /\ \A k \in DOMAIN ph : ph[k] \in Within(t[i + k - 1])

\* line 302 on the lower-case caption
has_location(caption_lower) ==
    \/ \E w \in location_words : Contains(caption_lower, w)
    \/ \E i \in DOMAIN caption_lower :
          caption_lower[i] \in {"at", "in"} /\ i < Len(caption_lower)

\* lines 295-305 on the lower-case caption
IsFutureLower(caption_lower, cd) ==
    /\ \E k \in event_keywords : Contains(caption_lower, k)
    /\ \/ extract_date_from_text(caption_lower, cd) # None
       \/ extract_time_from_text(caption_lower) # <<NoTime>>
       \/ has_location(caption_lower)
       \/ \E ph \in action_words : ContainsPhrase(caption_lower, ph)

is_future_event(caption, cd) == IsFutureLower(lower(caption), cd)

-----------------------------------------------------------------------------
(* extract_event_details, lines 307-382 *)

(* A post is a caption together with what the searches of lines 342-361 find
   in it: name_match and location_match are the captured groups, <<>> when no
   pattern matches.  cd is the clock as extract_date_from_text reads it, gate
   the clock as lines 327 and 378 read it afterwards; one call takes less
   than a tick of the model's clock, so the actions pass the same reading. *)

Untitled == <<"Untitled", "Event">>

\* lines 364-369: the first line of the caption, when it has more than 5 and
\* fewer than 100 characters
FirstLineName(post) ==
    IF post.first_line_len > 5 /\ post.first_line_len < 100 THEN strip(post.caption) ELSE <<>>

\* lines 364-372: the name found, else the first line, else the placeholder
NameOrUntitled(first_line) == IF first_line # <<>> THEN first_line ELSE Untitled

EventName(post) ==
    IF post.name_match # <<>> THEN strip(post.name_match)
    ELSE NameOrUntitled(FirstLineName(post))

\* lines 371-382
MakeEvent(post, username, event_date, event_time, gate) ==
    [event_name |-> EventName(post),
     date |-> strftime(event_date),
     time |-> IF event_time # <<NoTime>> THEN event_time ELSE TBD,
     location |-> IF post.location_match # <<>> THEN strip(post.location_match) ELSE TBD,
     caption |-> post.caption,
     source_account |-> username,
     days_until_event |-> DeltaDays(event_date, gate),
     instagram_url |-> post.shortcode,
     source_accounts |-> <<>>,
     keys |-> {"source_account"}]

\* lines 322-382, once the date is known
DatedEvent(post, username, caption_lower, event_date, gate) ==
    IF event_date = None THEN <<>>
    ELSE IF Before(event_date, gate) THEN <<>>
    ELSE <<MakeEvent(post, username, event_date, extract_time_from_text(caption_lower), gate)>>

\* the list holding the event, or the empty list for a return of None
extract_event_details(post, username, cd, gate) ==
    IF ~is_future_event(post.caption, cd) THEN <<>>
    ELSE DatedEvent(post, username, lower(post.caption),
                    extract_date_from_text(lower(post.caption), cd), gate)

\* lines 402-424: the events of the posts of one account, in post order
RECURSIVE extract_events_from_account(_, _, _, _)
extract_events_from_account(posts, username, cd, gate) ==
    IF posts = <<>> THEN <<>>
    ELSE extract_event_details(Head(posts), username, cd, gate)
           \o extract_events_from_account(Tail(posts), username, cd, gate)

-----------------------------------------------------------------------------
(* filter_future_events, lines 533-555, and the sort of line 462 *)

\* strptime cannot fail on a date that strftime wrote, so the except branch
\* of line 551 is never taken
filter_future_events(evs, cd) ==
    LET Keep(e) == ~Before(strptime(e.date), cd)
    IN  SelectSeq(evs, Keep)

\* list.sort(key=lambda x: x['date']) is stable: an element goes behind every
\* element whose key is not larger
InsertAt(sorted, e, j) ==
    IF j = 0 THEN Append(sorted, e)
    ELSE SubSeq(sorted, 1, j - 1) \o <<e>> \o SubSeq(sorted, j, Len(sorted))

FirstLarger(sorted, e) ==
    FirstOf({j \in DOMAIN sorted : ~DateStrLeq(sorted[j].date, e.date)})

\* an insertion that goes in front of the elements with the same key
FirstNotSmaller(sorted, e) ==
    FirstOf({j \in DOMAIN sorted : DateStrLeq(e.date, sorted[j].date)})

InsertBeforeEqual(sorted, e) == InsertAt(sorted, e, FirstNotSmaller(sorted, e))

InsertByDate(sorted, e) == InsertAt(sorted, e, FirstLarger(sorted, e))

RECURSIVE SortFrom(_, _)
SortFrom(sorted, rest) ==
    IF rest = <<>> THEN sorted ELSE SortFrom(InsertByDate(sorted, Head(rest)), Tail(rest))

SortByDate(evs) == SortFrom(<<>>, evs)

-----------------------------------------------------------------------------
(* Specification SpecDedupe: remove_duplicate_events, fed one event at a time *)

MaxEvents == 3

\* event_name and caption; the captions with "Wednesday" make a karaoke record
PoolTexts == {<< <<"Karaoke", "Night">>, <<"fun">> >>,
              << <<"karaoke", "night", " ">>, <<"Party">> >>,
              << <<"Karaoke", "Night">>, <<"Every", "Wednesday">> >>,
              << <<"karaoke", "night", " ">>, <<"Every", "Wednesday">> >>}
PoolAccounts == {"a", "b"}
\* date, time, location; the first two have one key
PoolVenues == {<< <<2025, 5, 1>>, <<"21:00">>, <<"The", "Lounge">> >>,
               << <<2025, 5, 1>>, <<"20:00">>, <<"the", "lounge", " ">> >>,
               << <<2025, 5, 8>>, TBD, TBD >>}

\* the dicts extract_event_details can hand to remove_duplicate_events
EventPool ==
    {[event_name |-> t[1], date |-> v[1], time |-> v[2], location |-> v[3], caption |-> t[2],
      source_account |-> a, days_until_event |-> 0, instagram_url |-> "",
      source_accounts |-> <<>>, keys |-> {"source_account"}] :
        t \in PoolTexts, v \in PoolVenues, a \in PoolAccounts}

InitDedupe ==
    /\ events = <<>>
    /\ unique_events = <<>>
    /\ seen_events = {}
    /\ ResolveIdle
    /\ PipelineIdle
    /\ CaptionIdle
    /\ AppIdle

\* the loop of line 489 takes `event` and leaves the state st
Consume(event, st) ==
    /\ unique_events' = st.unique
    /\ seen_events' = st.seen
    /\ events' = Append(events, event)
    /\ UNCHANGED <<resolveVars, pipelineVars, captionVars, appVars>>

Accumulated == [unique |-> unique_events, seen |-> seen_events]

\* lines 491-507: the event is folded into the karaoke record
MergeKaraoke ==
    \E event \in EventPool :
        /\ Len(events) < MaxEvents
        /\ DedupeBranch(unique_events, seen_events, event) = "karaoke"
        /\ Consume(event, DedupeIter(Accumulated, event))

\* lines 514-516: the event is new
InsertEvent ==
    \E event \in EventPool :
        /\ Len(events) < MaxEvents
        /\ DedupeBranch(unique_events, seen_events, event) = "insert"
        /\ Consume(event, DedupeIter(Accumulated, event))

\* lines 517-530: the event is folded into the record with its key
MergeDuplicate ==
    \E event \in EventPool :
        /\ Len(events) < MaxEvents
        /\ DedupeBranch(unique_events, seen_events, event) = "duplicate"
        /\ Consume(event, DedupeIter(Accumulated, event))

NextDedupe == MergeKaraoke \/ InsertEvent \/ MergeDuplicate

SpecDedupe == InitDedupe /\ [][NextDedupe]_vars

-----------------------------------------------------------------------------
(* Properties of remove_duplicate_events, checked under SpecDedupe *)

SameFields(u, e) ==
    /\ u.event_name = e.event_name
    /\ u.date = e.date
    /\ u.time = e.time
    /\ u.location = e.location
    /\ u.caption = e.caption

NoSourceTwice(q) == \A i, j \in DOMAIN q : i # j => q[i] # q[j]

ConsumedWithKey(k) == SelectSeq(events, LAMBDA e : event_key(e) = k)
UniqueWithKey(k) == SelectSeq(unique_events, LAMBDA u : event_key(u) = k)
SourcesOf(q) == [i \in DOMAIN q |-> q[i].source_account]

\* the accumulated records after the records of a key, none of which carries
\* the karaoke/wednesday signal, were consumed
C1_Accumulated ==
    \A k \in {event_key(e) : e \in SeqToSet(events)} :
        /\ Len(UniqueWithKey(k)) <= 1
        /\ (\A i \in DOMAIN ConsumedWithKey(k) : ~is_karaoke_wednesday(ConsumedWithKey(k)[i]))
             => /\ Len(UniqueWithKey(k)) = 1
                /\ SameFields(UniqueWithKey(k)[1], ConsumedWithKey(k)[1])
                /\ SourceList(UniqueWithKey(k)[1]) = SourcesOf(ConsumedWithKey(k))

\* one iteration on a record e without the signal whose key was seen
C1_Iteration ==
    Len(events') = Len(events) + 1 =>
        LET e == events'[Len(events')]
        IN  (~is_karaoke_wednesday(e) /\ event_key(e) \in seen_events) =>
               /\ Len(unique_events') = Len(unique_events)
               /\ \E j \in DOMAIN unique_events : event_key(unique_events[j]) = event_key(e)
               /\ \A j \in DOMAIN unique_events :
                     IF event_key(unique_events[j]) = event_key(e)
                     THEN /\ SameFields(unique_events'[j], unique_events[j])
                          /\ SourceList(unique_events'[j])
                                = Append(SourceList(unique_events[j]), e.source_account)
                     ELSE unique_events'[j] = unique_events[j]

\* C1: on the default path of remove_duplicate_events, a record without the
\* karaoke/wednesday signal whose identity key (lowercased and stripped name,
\* date, lowercased and stripped location) was already seen is not inserted:
\* the record with that key keeps its name, date, time, location and caption
\* and its source list grows by the source of the incoming record; so a key
\* whose records all lack the signal has exactly one output record, with the
\* fields of the first-seen record and the sources of all of them in order.
C1_DefaultPathMerge == [](C1_Accumulated) /\ [][C1_Iteration]_vars

\* C1 witness: two records with one key, written differently and coming from
\* two accounts, were merged into the first-seen one with a source list of size 2
C1_Merged ==
    /\ Len(events) = 2
    /\ ~is_karaoke_wednesday(events[1]) /\ ~is_karaoke_wednesday(events[2])
    /\ event_key(events[1]) = event_key(events[2])
    /\ ~SameFields(events[1], events[2])
    /\ events[1].source_account # events[2].source_account
    /\ Len(unique_events) = 1
    /\ SameFields(unique_events[1], events[1])
    /\ Len(SourceList(unique_events[1])) = 2

\* C2: all the records whose lowercase name+caption contains both "karaoke"
\* and "wednesday" collapse: the output holds at most one record with the
\* signal, it is the first-seen one of the input with its own date, time and
\* location, and it has the source of every record of the input with the signal.
C2_KaraokeCollapse ==
    LET sig == SelectSeq(events, is_karaoke_wednesday)
        out == SelectSeq(unique_events, is_karaoke_wednesday)
    IN  sig # <<>> =>
           /\ Len(out) <= 1
           /\ Len(out) = 1 =>
                 /\ SameFields(out[1], sig[1])
                 /\ \A i \in DOMAIN sig :
                       sig[i].source_account \in SeqToSet(SourceList(out[1]))

\* C3: the source list of every output record (source_accounts when present,
\* otherwise the single source_account) is not empty and holds no account twice.
C3_SourcesUnique ==
    \A j \in DOMAIN unique_events :
        /\ SourceList(unique_events[j]) # <<>>
        /\ NoSourceTwice(SourceList(unique_events[j]))

-----------------------------------------------------------------------------
(* Specification Spec: extract_events_from_multiple_accounts, lines 426-471 *)

\* the usernames argument
USERNAMES == <<"a", "b", "c">>

\* line 643, the count of get_user_posts
POSTS_PER_ACCOUNT == 10

\* the longest feed a profile returns in the model
MaxPosts == 2

\* the run starts on Friday 2025-06-06 and ends before ClockEnd
ClockStart == [year |-> 2025, month |-> 6, day |-> 6, tod |-> 0]
ClockEnd == [year |-> 2025, month |-> 6, day |-> 7, tod |-> 0]

\* the clock one tick later
NextTick(dt) ==
    IF dt.tod + 1 < TicksPerDay THEN [dt EXCEPT !.tod = dt.tod + 1]
    ELSE [NextDay(dt) EXCEPT !.tod = 0]

Posts ==
    {[caption |-> <<"Trivia", "Night", "Party", "7", "/", "6", "/", "2025", "at", "The", "Lounge">>,
      name_match |-> <<"Trivia", "Night">>, location_match |-> <<"The", "Lounge">>,
      first_line_len |-> 41, shortcode |-> "p1"],
     [caption |-> <<"Karaoke", "Show", "7", "-", "6", "-", "2025", "9pm">>,
      name_match |-> <<"Karaoke">>, location_match |-> <<>>,
      first_line_len |-> 25, shortcode |-> "p2"],
     [caption |-> <<"Launch", "Event", "6", "/", "6", "/", "2025">>,
      name_match |-> <<"Launch">>, location_match |-> <<>>,
      first_line_len |-> 22, shortcode |-> "p3"]}

\* the sequences of at most n different elements of S
RECURSIVE SeqsUpTo(_, _)
SeqsUpTo(S, n) ==
    IF n = 0 THEN {<<>>}
    ELSE LET shorter == SeqsUpTo(S, n - 1)
         IN  shorter \cup {Append(q, x) : q \in {r \in shorter : Len(r) = n - 1},
                                           x \in S}

NoRepeat(q) == \A i, j \in DOMAIN q : i # j => q[i] # q[j]

\* the edges of a profile: different posts, newest first
Feeds == {q \in SeqsUpTo(Posts, MaxPosts) : NoRepeat(q)}

\* edges[:count], line 116
get_user_posts(edges, count) == SubSeq(edges, 1, Min(count, Len(edges)))

Init ==
    /\ now \in {ClockStart, NextTick(ClockStart)}
    /\ acct = 1
    /\ fetched = <<>>
    /\ all_events = <<>>
    /\ deduped = <<>>
    /\ final_events = <<>>
    /\ filter_now = None
    /\ ppc = "accounts"
    /\ ResolveIdle
    /\ DedupeIdle
    /\ CaptionIdle
    /\ AppIdle

\* time passes
Tick ==
    /\ ppc = "accounts"
    /\ Before(NextTick(now), ClockEnd) \/ NextTick(now) = ClockEnd
    /\ now' = NextTick(now)
    /\ UNCHANGED <<acct, fetched, all_events, deduped, final_events, filter_now, ppc,
                   resolveVars, dedupeVars, captionVars, appVars>>

\* an except clause that keeps what the account had collected
KeepCollected(done, username, cd) == extract_events_from_account(done, username, cd, cd)

\* what reaches all_events of the events an account had collected from the
\* posts `done` when the exception was raised: `events` is local to
\* extract_events_from_account (line 402) and line 448 was not reached
AfterException(done, username, cd) == <<>>

Processed(username, status, posts, cd, gate) ==
    [username |-> username, status |-> status, posts |-> posts, cd |-> cd, gate |-> gate]

\* line 447: the events of an account that was processed without an exception
Contribution(f) == extract_events_from_account(f.posts, f.username, f.cd, f.gate)

\* lines 445-451 for one username whose profile and posts are processed
AccountOk ==
    /\ ppc = "accounts"
    /\ acct <= Len(USERNAMES)
    /\ \E edges \in Feeds :
          /\ fetched' = Append(fetched, Processed(USERNAMES[acct], "ok",
                                                  get_user_posts(edges, POSTS_PER_ACCOUNT), now, now))
          /\ all_events' = all_events \o Contribution(fetched'[acct])
    /\ acct' = acct + 1
    /\ UNCHANGED <<now, deduped, final_events, filter_now, ppc, resolveVars, dedupeVars,
                   captionVars, appVars>>

\* lines 89-95 and 109-110: get_user_profile returns None (a RequestException,
\* or no user in the answer) and the account has no posts
AccountNoProfile ==
    /\ ppc = "accounts"
    /\ acct <= Len(USERNAMES)
    /\ all_events' = all_events \o <<>>
    /\ fetched' = Append(fetched, Processed(USERNAMES[acct], "no_profile", <<>>, None, None))
    /\ acct' = acct + 1
    /\ UNCHANGED <<now, deduped, final_events, filter_now, ppc, resolveVars, dedupeVars,
                   captionVars, appVars>>

\* lines 453-455: an exception leaves extract_events_from_account while post k
\* is processed (any other exception of the fetch is the case k = 1 of an
\* account that has collected nothing)
AccountRaises ==
    /\ ppc = "accounts"
    /\ acct <= Len(USERNAMES)
    /\ \E edges \in Feeds \ {<<>>} :
          \E k \in 1..Len(edges) :
             /\ all_events' = all_events \o AfterException(SubSeq(edges, 1, k - 1), USERNAMES[acct], now)
             /\ fetched' = Append(fetched, Processed(USERNAMES[acct], "raised", <<>>, None, None))
    /\ acct' = acct + 1
    /\ UNCHANGED <<now, deduped, final_events, filter_now, ppc, resolveVars, dedupeVars,
                   captionVars, appVars>>

\* lines 457-471: dedupe, filter, sort, return
Finish ==
    /\ ppc = "accounts"
    /\ acct > Len(USERNAMES)
    /\ deduped' = remove_duplicate_events(all_events)
    /\ filter_now' = now
    /\ final_events' = SortByDate(filter_future_events(deduped', now))
    /\ ppc' = "done"
    /\ UNCHANGED <<now, acct, fetched, all_events, resolveVars, dedupeVars, captionVars, appVars>>

Next == Tick \/ AccountOk \/ AccountNoProfile \/ AccountRaises \/ Finish

Spec == Init /\ [][Next]_vars

-----------------------------------------------------------------------------
(* Properties of extract_events_from_multiple_accounts, checked under Spec *)

\* the date a post announces, as the account f that holds it resolved it
PostDate(post, f) == strftime(extract_date_from_text(lower(post.caption), f.cd))

Listed(post, d) ==
    \E k \in DOMAIN final_events :
        final_events[k].date = d /\ final_events[k].instagram_url = post.shortcode

DayBefore(d, dt) == strftime(NextDay(strptime(d))) = strftime(dt)

\* C4: the boundary is inclusive at the gate of extract_event_details and in
\* filter_future_events: a post dated the calendar day of the clock, whatever
\* its time of day, gives a record of the final list, and a record dated the
\* day before the clock is not in the final list.
C4_InclusiveBoundary ==
    ppc = "done" =>
        \A i \in DOMAIN fetched : \A j \in DOMAIN fetched[i].posts :
            /\ (/\ PostDate(fetched[i].posts[j], fetched[i]) = strftime(fetched[i].gate)
                /\ PostDate(fetched[i].posts[j], fetched[i]) = strftime(filter_now))
                  => Listed(fetched[i].posts[j], strftime(filter_now))
            /\ DayBefore(PostDate(fetched[i].posts[j], fetched[i]), filter_now)
                  => ~Listed(fetched[i].posts[j], PostDate(fetched[i].posts[j], fetched[i]))

\* the clock readings of a run
RECURSIVE ClockFrom(_)
ClockFrom(dt) == IF dt = ClockEnd THEN {dt} ELSE {dt} \cup ClockFrom(NextTick(dt))

\* line 447 for every feed an account can have and every clock reading
EventsOf ==
    [q \in Feeds, u \in SeqToSet(USERNAMES), dt \in ClockFrom(ClockStart)
        |-> extract_events_from_account(q, u, dt, dt)]

\* the events of the accounts of fs that were processed without a failure
RECURSIVE OkEvents(_)
OkEvents(fs) ==
    IF fs = <<>> THEN <<>>
    ELSE (IF Head(fs).status = "ok"
          THEN EventsOf[Head(fs).posts, Head(fs).username, Head(fs).gate]
          ELSE <<>>) \o OkEvents(Tail(fs))

\* C5: whichever accounts fail, at the profile or while a post is processed,
\* every account is processed in turn, the events collected are those of the
\* accounts that did not fail, in account order, and the list returned is the
\* list the pipeline (dedupe, future filter, sort) gives for those alone.
C5_PartialFailure ==
    ppc \in {"accounts", "done"} =>
        /\ Len(fetched) = acct - 1
        /\ all_events = OkEvents(fetched)
        /\ ppc = "done" =>
              /\ Len(fetched) = Len(USERNAMES)
              /\ final_events = SortByDate(filter_future_events(
                                    remove_duplicate_events(OkEvents(fetched)), filter_now))

\* C5 witness: of three accounts the second failed while a post was processed
\* and the list returned has records of the first and of the third
C5_SecondFailed ==
    /\ ppc = "done"
    /\ fetched[1].status = "ok" /\ fetched[2].status = "raised" /\ fetched[3].status = "ok"
    /\ \E k \in DOMAIN final_events : SourceList(final_events[k]) = <<"a">>
    /\ \E k \in DOMAIN final_events : SourceList(final_events[k]) = <<"c">>

\* the place of a record in the output of remove_duplicate_events
PlaceInDeduped(e) == CHOOSE k \in DOMAIN deduped : deduped[k] = e

\* C6: the list returned is sorted non-decreasing by date, holds the records
\* the future filter kept, and records with equal dates are in the order in
\* which remove_duplicate_events inserted them.
C6_SortedStable ==
    ppc = "done" =>
        /\ \A i \in 1..(Len(final_events) - 1) :
              DateStrLeq(final_events[i].date, final_events[i + 1].date)
        /\ Len(final_events) = Len(filter_future_events(deduped, filter_now))
        /\ SeqToSet(final_events) = SeqToSet(filter_future_events(deduped, filter_now))
        /\ \A i, j \in DOMAIN final_events :
              (i < j /\ final_events[i].date = final_events[j].date)
                 => PlaceInDeduped(final_events[i]) < PlaceInDeduped(final_events[j])

\* C6 witness: the sort moved a record in front of an earlier-inserted one and
\* left two records with one date in their order of insertion
C6_TieAndReorder ==
    /\ ppc = "done"
    /\ final_events # filter_future_events(deduped, filter_now)
    /\ \E i, j \in DOMAIN final_events :
          i < j /\ final_events[i].date = final_events[j].date


\* C13: days_until_event of every record of the final list is the record's
\* date minus the clock reading of the future-filter pass, in whole days: it is
\* computed again when the filter runs and is not the value of the moment the
\* record was made.
C13_DaysAtFilterTime ==
    ppc = "done" =>
        \A i \in DOMAIN final_events :
           final_events[i].days_until_event
             = DeltaDays(strptime(final_events[i].date), filter_now)


-----------------------------------------------------------------------------
(* Specification SpecCaption: extract_time_from_text and is_future_event on
   one caption *)

\* captions that are a clock time, alone or after other words
TimeCaptions ==
    {<<e[1]>> : e \in TimeTable}
      \cup {<<"doors", "at", tok>> : tok \in time_h_tokens}
      \cup {<<"9pm", "then", "7:30am">>, <<"doors", "open">>}

\* an event word or none, followed by a date, a time, a place, a call or none
VocabularyParts == {<<>>, <<"Party">>, <<"live", "Show">>}
SignalParts ==
    {<<>>, <<"soon">>, <<"5", "/", "6", "/", "2026">>, <<"31", "/", "6", "/", "2026">>,
     <<"tomorrow">>, <<"june", "5">>, <<"friday">>, <<"9pm">>, <<"7:30am">>,
     <<"at", "the", "dock">>, <<"venue">>, <<"join", "us">>, <<"save", "the", "date">>}
EventCaptions == {v \o g : v \in VocabularyParts, g \in SignalParts}

Captions == TimeCaptions \cup EventCaptions

InitCaption ==
    /\ caption_text \in Captions
    /\ caption_now \in {ClockStart, NextTick(ClockStart)}
    /\ time_result = <<>>
    /\ is_event = FALSE
    /\ cpc = {}
    /\ ResolveIdle
    /\ DedupeIdle
    /\ PipelineIdle
    /\ AppIdle

\* one call of extract_time_from_text(caption); line 259 lowers the text
ExtractTime ==
    /\ "time" \notin cpc
    /\ time_result' = extract_time_from_text(lower(caption_text))
    /\ cpc' = cpc \cup {"time"}
    /\ UNCHANGED <<caption_text, caption_now, is_event, resolveVars, dedupeVars, pipelineVars,
                   appVars>>

\* one call of is_future_event(caption)
Classify ==
    /\ "event" \notin cpc
    /\ is_event' = is_future_event(caption_text, caption_now)
    /\ cpc' = cpc \cup {"event"}
    /\ UNCHANGED <<caption_text, caption_now, time_result, resolveVars, dedupeVars,
                   pipelineVars, appVars>>

NextCaption == ExtractTime \/ Classify

SpecCaption == InitCaption /\ [][NextCaption]_vars

-----------------------------------------------------------------------------
(* Properties of is_future_event and extract_time_from_text, checked under
   SpecCaption *)

HasVocabulary(c) == \E i \in DOMAIN c : lower_atom(c[i]) \in event_keywords

\* one of the date categories matches and gives a date
HasResolvableDate(t, cd) ==
    \E i \in 1..9 :
       Matches(date_patterns[i], t) /\ CategoryResult(date_patterns[i], t, cd) # None

HasResolvableTime(t) == \E i \in DOMAIN t : t[i] \in time_h_tokens \cup time_hm_tokens

HasLocationCue(t) ==
    \/ \E i \in DOMAIN t : t[i] \in location_words
    \/ \E i \in 1..(Len(t) - 1) : t[i] \in {"at", "in"}

HasCallToAction(t) == \E ph \in action_words : ContainsPhrase(t, ph)

HasSignal(t, cd) ==
    HasResolvableDate(t, cd) \/ HasResolvableTime(t) \/ HasLocationCue(t) \/ HasCallToAction(t)

\* C14: is_future_event returns true exactly when the caption has an event
\* word and at least one signal (a resolvable date, a resolvable time, a
\* location cue, a call to action): false without an event word whatever the
\* signals, false with an event word and no signal, true otherwise.
C14_WordAndSignal ==
    ("event" \in cpc /\ caption_text \in EventCaptions) =>
        is_event = (HasVocabulary(caption_text)
                      /\ HasSignal(lower(caption_text), caption_now))

\* the table entry of the first clock time of a caption: one with minutes
\* when the caption has one
HmTokens(t) == {i \in DOMAIN t : t[i] \in time_hm_tokens}
HTokens(t) == {i \in DOMAIN t : t[i] \in time_h_tokens}
FirstTimeToken(t) == IF HmTokens(t) # {} THEN t[FirstOf(HmTokens(t))] ELSE t[FirstOf(HTokens(t))]
EntryOf(tok) == CHOOSE e \in TimeTable : e[1] = tok

Digit == <<"0", "1", "2", "3", "4", "5", "6", "7", "8", "9">>
\* "HH:MM"
Clock24(hour, minute) == Digit[(hour \div 10) + 1] \o Digit[(hour % 10) + 1] \o ":" \o minute

Hour24(hour, period) ==
    IF period = "pm" THEN (IF hour = 12 THEN 12 ELSE hour + 12)
    ELSE (IF hour = 12 THEN 0 ELSE hour)

MinuteOr00(minute) == IF minute = "" THEN "00" ELSE minute

InClaimRange(e) == e[2] \in 1..12 /\ e[3] \in {""} \cup {TwoDigits(m) : m \in 0..59}

\* C15: for hours 1..12 and minutes 00..59 the result is the 24-hour "HH:MM":
\* pm adds 12 to the hour except at 12, am turns 12 into 0 and keeps the other
\* hours, a time without minutes has minute 00; a text with no clock time
\* gives None.
C15_TwentyFourHour ==
    ("time" \in cpc /\ caption_text \in TimeCaptions) =>
        IF HmTokens(caption_text) \cup HTokens(caption_text) = {}
        THEN time_result = <<NoTime>>
        ELSE InClaimRange(EntryOf(FirstTimeToken(caption_text))) =>
               time_result = <<Clock24(Hour24(EntryOf(FirstTimeToken(caption_text))[2],
                                              EntryOf(FirstTimeToken(caption_text))[4]),
                                       MinuteOr00(EntryOf(FirstTimeToken(caption_text))[3]))>>

\* C15 witness: "doors at 9pm" gave "21:00"
C15_DoorsAtNine ==
    /\ "time" \in cpc
    /\ caption_text = <<"doors", "at", "9pm">>
    /\ time_result = <<"21:00">>

ValidTimes == {Clock24(h, TwoDigits(m)) : h \in 0..23, m \in 0..59}

\* C18: every result of extract_time_from_text other than None is a time of
\* the 24-hour clock, hour 00..23 and minute 00..59, whatever one- or
\* two-digit hour the text has and whichever period.
C18_ValidClockTime ==
    ("time" \in cpc /\ time_result # <<NoTime>>) => time_result[1] \in ValidTimes


-----------------------------------------------------------------------------
(* Specification SpecRefresh: requests to index() of src/app.py, and the
   extractor's main() that a request runs as a subprocess.

   Times are seconds since the server started.  An event date is the
   timestamp of its midnight; the file EVENTS_TXT is modelled by its mtime
   and the dates of its event blocks. *)

\* app.py line 12
UPDATE_INTERVAL_SECONDS == 1800

\* the midnight at which the server starts, and the next one
Midnights == {0, 86400}

\* app.py lines 59-63
should_update_events(f, w) ==
    IF ~f.exists THEN TRUE
    ELSE (w - f.mtime) > UPDATE_INTERVAL_SECONDS

\* app.py lines 15-57: the blocks whose date is not before the clock; a file
\* that cannot be read gives the empty list
parse_events(f, w) ==
    IF ~f.exists THEN <<>>
    ELSE SelectSeq(f.dates, LAMBDA d : d >= w)

\* what extract_events_from_multiple_accounts can return at time w (line
\* 657): dates not before the clock, in ascending order
ExtractorOutputs(w) ==
    {evs \in {<<>>, <<0>>, <<86400>>, <<0, 86400>>} : \A i \in DOMAIN evs : evs[i] >= w}

\* main, lines 659-693: the text file is written inside `if events:`
WriteEvents(f, evs, w) ==
    IF evs # <<>> THEN [exists |-> TRUE, mtime |-> w, dates |-> evs]
    ELSE f

\* the record of a request served at time w
Served(w, ran, f) ==
    [at |-> w, prior_ok |-> ok_at, ran |-> ran, served |-> parse_events(f, w)]

InitRefresh ==
    /\ wall = 0
    /\ events_txt \in {NoFile, [exists |-> TRUE, mtime |-> 0, dates |-> <<86400>>]}
    /\ ok_at = NoRun
    /\ request = NoRequest
    /\ apc = "serving"
    /\ ResolveIdle
    /\ DedupeIdle
    /\ PipelineIdle
    /\ CaptionIdle

\* time passes between two requests
TimePasses ==
    /\ apc = "serving"
    /\ wall + WallStep <= MaxWall
    /\ wall' = wall + WallStep
    /\ UNCHANGED <<events_txt, ok_at, request, apc, resolveVars, dedupeVars, pipelineVars,
                   captionVars>>

\* index(), lines 68 and 78-88: the data is not stale, the file is served
ServeFresh ==
    /\ apc = "serving"
    /\ ~should_update_events(events_txt, wall)
    /\ request' = Served(wall, FALSE, events_txt)
    /\ UNCHANGED <<wall, events_txt, ok_at, apc, resolveVars, dedupeVars, pipelineVars,
                   captionVars>>

\* index(), lines 68-70 and 78-88: the extractor runs, finds events, writes
\* the file and exits with status 0
RunWritesFile ==
    /\ apc = "serving"
    /\ should_update_events(events_txt, wall)
    /\ \E evs \in ExtractorOutputs(wall) \ {<<>>} :
          events_txt' = WriteEvents(events_txt, evs, wall)
    /\ ok_at' = wall
    /\ request' = Served(wall, TRUE, events_txt')
    /\ UNCHANGED <<wall, apc, resolveVars, dedupeVars, pipelineVars, captionVars>>

\* index(), lines 68-70 and 78-88: the extractor runs, finds no future event
\* (main, lines 692-693) and exits with status 0
RunFindsNothing ==
    /\ apc = "serving"
    /\ should_update_events(events_txt, wall)
    /\ events_txt' = WriteEvents(events_txt, <<>>, wall)
    /\ ok_at' = wall
    /\ request' = Served(wall, TRUE, events_txt')
    /\ UNCHANGED <<wall, apc, resolveVars, dedupeVars, pipelineVars, captionVars>>

\* index(), lines 68-73 and 78-88: the extractor exits with an error before
\* it writes (CalledProcessError)
RunFails ==
    /\ apc = "serving"
    /\ should_update_events(events_txt, wall)
    /\ request' = Served(wall, TRUE, events_txt)
    /\ UNCHANGED <<wall, events_txt, ok_at, apc, resolveVars, dedupeVars, pipelineVars,
                   captionVars>>

\* index(), lines 68-70, 74-76 and 78-88: python3 cannot be started
\* (FileNotFoundError), no extractor runs
CannotStart ==
    /\ apc = "serving"
    /\ should_update_events(events_txt, wall)
    /\ request' = Served(wall, FALSE, events_txt)
    /\ UNCHANGED <<wall, events_txt, ok_at, apc, resolveVars, dedupeVars, pipelineVars,
                   captionVars>>

NextRefresh ==
    TimePasses \/ ServeFresh \/ RunWritesFile \/ RunFindsNothing \/ RunFails \/ CannotStart

SpecRefresh == InitRefresh /\ [][NextRefresh]_vars

-----------------------------------------------------------------------------
(* Properties of the refresh protocol, checked under SpecRefresh *)

\* C17: once a request has run the extractor and the run has ended without
\* error, a later request that arrives within UPDATE_INTERVAL_SECONDS of that
\* run serves the file and runs no extractor, also when the run found no
\* future event.
C17_NoRunWithinInterval ==
    (/\ request.at # NoRun
     /\ request.prior_ok # NoRun
     /\ request.at - request.prior_ok <= UPDATE_INTERVAL_SECONDS) => ~request.ran

=============================================================================
